---- MODULE Spec2Model ----
(***************************************************************************)
(* A model of pipette's pipeline engine (src/src/pipette/pipes.py): the    *)
(* Process lifecycle, the resolution of stage types in a list of           *)
(* namespaces, and Pipe.communicate, which instantiates the chain, wires   *)
(* the streams of every stage and runs the stages one after the other.     *)
(*                                                                         *)
(* Dotted identifiers are sequences of their components, so that           *)
(* 'pipette.pipes.BashCommand' is <<"pipette", "pipes", "BashCommand">>.   *)
(* A text is a sequence of tokens <<key, value>>; a YAML flow mapping is   *)
(* an opening brace, its entries in key order, and a closing brace.        *)
(* A stream is an object of the heap, named by its index in the heap.      *)
(***************************************************************************)
EXTENDS Integers, Sequences, FiniteSets, TLC

\* The longest chain of a definition.
MaxChain == 3

----------------------------------------------------------------------------
(* Mappings (Python dicts with string keys and string values)              *)

EmptyDict == [k \in {} |-> ""]

\* dict.update
Update(a, b) ==
    [k \in (DOMAIN a) \cup (DOMAIN b) |-> IF k \in DOMAIN b THEN b[k] ELSE a[k]]

\* dict.get(key, default)
Get(d, key, default) == IF key \in DOMAIN d THEN d[key] ELSE default

\* d[key] = value
SetItem(d, key, value) ==
    [k \in (DOMAIN d) \cup {key} |-> IF k = key THEN value ELSE d[k]]

\* The parameter and result keys of the model, in the order yaml.dump
\* writes them (sorted).
KeyOrder ==
    <<"bash_command", "error", "error_filepath", "foo", "input_filepath",
      "name", "output", "output_filepath", "x">>

----------------------------------------------------------------------------
(* YAML texts                                                              *)

LBrace == <<"{", "">>
RBrace == <<"}", "">>

RECURSIVE DumpItems(_, _)
DumpItems(m, i) ==
    IF i > Len(KeyOrder) THEN <<>>
    ELSE (IF KeyOrder[i] \in DOMAIN m
            THEN << <<KeyOrder[i], m[KeyOrder[i]]>> >>
            ELSE <<>>) \o DumpItems(m, i + 1)

\* yaml.dump of a mapping of scalars: '{k: v, ...}\n', keys sorted.
YamlDump(m) == <<LBrace>> \o DumpItems(m, 1) \o <<RBrace>>

RECURSIVE LoadItems(_, _)
LoadItems(text, i) ==
    IF i = 0 THEN EmptyDict
    ELSE SetItem(LoadItems(text, i - 1), text[i][1], text[i][2])

IsFlowMapping(text) ==
    /\ Len(text) >= 2
    /\ text[1] = LBrace
    /\ text[Len(text)] = RBrace
    /\ \A i \in 2..(Len(text) - 1) : text[i] \notin {LBrace, RBrace}

\* yaml.load: None for an empty text, the mapping of a flow mapping, and a
\* parser error for anything else.
YamlLoad(text) ==
    IF text = <<>> THEN [kind |-> "None", value |-> EmptyDict]
    ELSE IF IsFlowMapping(text)
        THEN [kind |-> "dict",
              value |-> LoadItems(SubSeq(text, 2, Len(text) - 1), Len(text) - 2)]
        ELSE [kind |-> "ParserError", value |-> EmptyDict]

----------------------------------------------------------------------------
(* Streams                                                                 *)

sys_stdin == 1
sys_stdout == 2
sys_stderr == 3
\* The StringIO objects a caller of communicate passes in.
caller_input == 4
caller_output == 5
caller_error == 6
\* input_stream = None
None == 0

StringIO(text) ==
    [buf |-> text, pos |-> 0, seekable |-> TRUE, dirty |-> FALSE, flushes |-> 0]
StdStream ==
    [buf |-> <<>>, pos |-> 0, seekable |-> FALSE, dirty |-> FALSE, flushes |-> 0]

\* stream.read(): the text from the position to the end.
ReadText(s) == SubSeq(s.buf, s.pos + 1, Len(s.buf))
AfterRead(s) == [s EXCEPT !.pos = Len(s.buf)]

\* stream.write(text): at the position, over what is there.
AfterWrite(s, text) ==
    [s EXCEPT !.buf = SubSeq(s.buf, 1, s.pos) \o text
                      \o SubSeq(s.buf, s.pos + Len(text) + 1, Len(s.buf)),
              !.pos = s.pos + Len(text),
              !.dirty = TRUE]

\* stream.flush(); flushes counts the calls.
AfterFlush(s) == [s EXCEPT !.dirty = FALSE, !.flushes = s.flushes + 1]

----------------------------------------------------------------------------
(* Modules and classes the interpreter can import                          *)

\* The classes of the repository, by their qualified names.
PipesProcess == "pipette.pipes.Process"
PipesBashCommand == "pipette.pipes.BashCommand"
PipesPipe == "pipette.pipes.Pipe"
InitProcess == "pipette.Process"
InitBashCommand == "pipette.BashCommand"
FooProcess == "tests.test_workflow.FooProcess"

\* The modules __import__ finds; any other module name raises ImportError.
Importable ==
    {<<"pipette">>, <<"pipette", "pipes">>, <<"tests">>,
     <<"tests", "test_workflow">>}

\* The classes a module defines or imports, by attribute name.
ModuleDict(module) ==
    IF module = <<"pipette">> THEN
        [Process |-> InitProcess, BashCommand |-> InitBashCommand]
    ELSE IF module = <<"pipette", "pipes">> THEN
        [Process |-> PipesProcess, BashCommand |-> PipesBashCommand,
         Pipe |-> PipesPipe]
    ELSE IF module = <<"tests", "test_workflow">> THEN
        [FooProcess |-> FooProcess, Process |-> PipesProcess,
         Pipe |-> PipesPipe]
    ELSE EmptyDict

\* cls.__name__.lower()
ClassLowerName(cls) ==
    IF cls \in {PipesProcess, InitProcess} THEN "process"
    ELSE IF cls \in {PipesBashCommand, InitBashCommand} THEN "bashcommand"
    ELSE IF cls = FooProcess THEN "fooprocess"
    ELSE "pipe"

\* Process of pipes.py has the abstract method run: cls() raises TypeError.
IsAbstract(cls) == cls = PipesProcess

\* isinstance(cls(), Process), with Process the class of pipes.py.
IsProcess(cls) == cls \in {PipesProcess, PipesBashCommand, FooProcess}

\* os.path.exists
is_filepath_safe(path) == path = "exists"

----------------------------------------------------------------------------
(* Exceptions                                                              *)

NoExc == [type |-> "none", process_type |-> <<>>, namespaces |-> <<>>]
Raise(type) == [type |-> type, process_type |-> <<>>, namespaces |-> <<>>]

----------------------------------------------------------------------------
(* Pipe.find_process_class                                                 *)

Last(s) == s[Len(s)]
Front(s) == SubSeq(s, 1, Len(s) - 1)

\* The loop over self.process_namespaces: st holds the locals process_type
\* and module (<<>> is None) when the loop reaches namespace i.
RECURSIVE FindLoop(_, _, _)
FindLoop(namespaces, i, st) ==
    IF i > Len(namespaces) THEN st
    ELSE LET process_type == namespaces[i] \o st.process_type
             module_name == Front(process_type)
         IN  FindLoop(namespaces, i + 1,
                 [process_type |-> process_type,
                  module |-> IF module_name \in Importable
                               THEN module_name ELSE st.module])

\* find_process_class that reports a missing attribute as a failed import.
find_process_class_wrapped(namespaces, declared) ==
    LET st == FindLoop(namespaces, 1, [process_type |-> declared, module |-> <<>>])
        class_name == Last(declared)
    IN  IF \/ st.module = <<>>
           \/ class_name \notin DOMAIN ModuleDict(st.module) THEN
            [exc |-> [type |-> "ImportError", process_type |-> st.process_type,
                      namespaces |-> namespaces],
             cls |-> ""]
        ELSE [exc |-> NoExc, cls |-> ModuleDict(st.module)[class_name]]

find_process_class(namespaces, declared) ==
    LET st == FindLoop(namespaces, 1, [process_type |-> declared, module |-> <<>>])
        class_name == Last(declared)
    IN  IF st.module = <<>> THEN
            [exc |-> [type |-> "ImportError", process_type |-> st.process_type,
                      namespaces |-> namespaces],
             cls |-> ""]
        ELSE IF class_name \notin DOMAIN ModuleDict(st.module) THEN
            [exc |-> Raise("AttributeError"), cls |-> ""]
        ELSE [exc |-> NoExc, cls |-> ModuleDict(st.module)[class_name]]

----------------------------------------------------------------------------
(* Process.__init__ and Pipe._instanciate_process                          *)

NewProcess(cls) ==
    [cls |-> cls,
     description |-> EmptyDict,
     streams |-> [input |-> sys_stdin, output |-> sys_stdout, error |-> sys_stderr],
     parameters |-> EmptyDict,
     results |-> EmptyDict]

default_type == <<"BashCommand">>

_instanciate_process(namespaces, process_description) ==
    LET found == find_process_class(namespaces,
                     Get(process_description, "type", default_type))
        process == NewProcess(found.cls)
        default_parameters == Get(process_description, "default_parameters", EmptyDict)
        default_process_name == ClassLowerName(found.cls)
    IN  IF found.exc # NoExc THEN [exc |-> found.exc, process |-> process]
        ELSE IF IsAbstract(found.cls) THEN
            [exc |-> Raise("TypeError"), process |-> process]
        ELSE IF ~IsProcess(found.cls) THEN
            [exc |-> Raise("AssertionError"), process |-> process]
        ELSE [exc |-> NoExc,
              process |->
                [process EXCEPT
                    !.description = process_description,
                    !.parameters = SetItem(Update(process.parameters, default_parameters),
                                       "name",
                                       Get(process_description, "name",
                                           default_process_name))]]

----------------------------------------------------------------------------
(* The lifecycle of a Process                                              *)

\* ExecuteFlow with run called before put_on.
ExecuteFlowRunFirst(step) ==
    IF step = "call" THEN "merge"
    ELSE IF step = "merge" THEN "run"
    ELSE IF step = "run" THEN "put_on"
    ELSE IF step = "put_on" THEN "reduce"
    ELSE "return"

\* Process.execute: the steps of the lifecycle, in the order it calls them.
ExecuteFlow(step) ==
    IF step = "call" THEN "merge"
    ELSE IF step = "merge" THEN "put_on"
    ELSE IF step = "put_on" THEN "run"
    ELSE IF step = "run" THEN "reduce"
    ELSE "return"

\* merge_parameters that keeps the values the process already has.
merge_parameters_keep(process, pipe_parameters) ==
    [process EXCEPT !.parameters = Update(pipe_parameters, process.parameters)]

\* self.parameters.update(default_parameters), first statement of execute.
merge_parameters(process, pipe_parameters) ==
    [process EXCEPT !.parameters = Update(process.parameters, pipe_parameters)]

\* Process.parse_input, given the text read from the input stream.
parse_input(process, input_yaml_text) ==
    LET input_parameters == YamlLoad(input_yaml_text)
    IN  IF input_parameters.kind = "ParserError" THEN
            [exc |-> Raise("ParserError"), process |-> process]
        ELSE IF input_parameters.kind = "None" THEN
            \* dict.update(None)
            [exc |-> Raise("TypeError"), process |-> process]
        ELSE [exc |-> NoExc,
              process |-> [process EXCEPT
                  !.parameters = Update(process.parameters, input_parameters.value)]]

FilepathKeys == {"input_filepath", "output_filepath", "error_filepath"}

\* The order in which BashCommand.run looks at the file paths.
FilepathOrder == <<"input_filepath", "output_filepath", "error_filepath">>

\* The parameters for which BashCommand.run called open(): those present
\* for which no assertion failed at or before them.
FilesOpened(parameters) ==
    {FilepathOrder[i] : i \in
        {j \in 1..Len(FilepathOrder) :
            /\ FilepathOrder[j] \in DOMAIN parameters
            /\ \A k \in 1..j :
                  FilepathOrder[k] \in DOMAIN parameters
                      => is_filepath_safe(parameters[FilepathOrder[k]])}}

\* run never calls close(): the file objects are the values of locals of
\* run, and they are closed when the interpreter reclaims them. Where run
\* raised, the traceback keeps the frame and its locals; where run
\* returned, reclaimed is whether the interpreter has reclaimed them.
LeftOpen(files, raised, reclaimed) ==
    IF ~raised /\ reclaimed THEN {} ELSE files

\* BashCommand.run and FooProcess.run; popen_ok is whether the shell
\* command could be spawned and waited for.
run(process, popen_ok) ==
    IF process.cls = FooProcess THEN
        [exc |-> NoExc,
         process |-> [process EXCEPT !.results = SetItem(process.results, "foo", "bar")]]
    ELSE IF \E k \in FilepathKeys :
                /\ k \in DOMAIN process.parameters
                /\ ~is_filepath_safe(process.parameters[k]) THEN
        [exc |-> Raise("AssertionError"), process |-> process]
    ELSE IF ~popen_ok THEN
        [exc |-> Raise("OSError"), process |-> process]
    ELSE [exc |-> NoExc, process |-> process]

\* The file objects the run of the process at idx opened; bash_classes are
\* the classes whose run is BashCommand.run.
RunOpens(idx, process, bash_classes) ==
    IF process.cls \in bash_classes
        THEN {<<idx, k>> : k \in FilesOpened(process.parameters)}
        ELSE {}

\* Process.bake_output
bake_output(process) == YamlDump(process.results)

\* Process.flush_streams
flush_streams(h, process) ==
    [s \in DOMAIN h |->
        IF s \in {process.streams.output, process.streams.error}
            THEN AfterFlush(h[s]) ELSE h[s]]

\* Process.reduce, on the heap of streams; write_ok is whether the write
\* to the output stream returned. When it raises, reduce ends there.
reduce(h, process, write_ok) ==
    LET output == bake_output(process)
        written == [h EXCEPT ![process.streams.output] =
                        AfterWrite(h[process.streams.output], output)]
    IN  IF write_ok
          THEN [exc |-> NoExc, heap |-> flush_streams(written, process)]
          ELSE [exc |-> Raise("IOError"), heap |-> h]

----------------------------------------------------------------------------
(* Pipe.communicate: the wiring of the streams                             *)

_get_default_streams(streams) ==
    [input |-> Get(streams, "input", sys_stdin),
     output |-> Get(streams, "output", sys_stdout),
     error |-> Get(streams, "error", sys_stderr)]

\* CommunicateFlow with the generator consumed by the loop itself: a
\* process is instantiated only when the loop comes to it.
CommunicateFlowLazy(at, i, built, total) ==
    IF at = "rewire" THEN
        (IF i < built THEN "wire"
         ELSE IF built < total THEN "instanciate" ELSE "done")
    ELSE IF at = "call" THEN (IF total > 0 THEN "instanciate" ELSE "assert")
    ELSE (IF built = 1 THEN "assert" ELSE "wire")

\* Where communicate goes next: after the call and after each process the
\* generator yields (list() consumes the generator to its end before the
\* loop starts), and after each turn of the loop over self.chain, i being
\* the next index.
CommunicateFlow(at, i, built, total) ==
    IF at = "rewire" THEN (IF i < built THEN "wire" ELSE "done")
    ELSE (IF built < total THEN "instanciate" ELSE "assert")

\* WireError that leaves the process the error stream it was made with.
WireErrorOwn(pipe_error, own_error) == own_error

\* The error handle of every process.
WireError(pipe_error, own_error) == pipe_error

\* assert chain_size > 0, without the assertion.
ChainSizeAny(size) == TRUE

\* assert chain_size > 0
ChainSizeOk(size) == size > 0

\* The input handle of the process at index.
WireInput(idx, size, pipe_input, input_buffer) ==
    IF idx = 0 THEN pipe_input ELSE input_buffer

\* WireOutput with the last-process test off by one (never true).
WireOutputDead(idx, size, pipe_output, output_buffer) ==
    IF idx = size THEN pipe_output ELSE output_buffer

\* WireOutput that takes the last process only in chains of several.
WireOutputMulti(idx, size, pipe_output, output_buffer) ==
    IF size > 1 /\ idx = size - 1 THEN pipe_output ELSE output_buffer

\* WireOutput that gives every process the output of the pipeline.
WireOutputAlways(idx, size, pipe_output, output_buffer) == pipe_output

\* The output handle of the process at index.
WireOutput(idx, size, pipe_output, output_buffer) ==
    IF idx = size - 1 THEN pipe_output ELSE output_buffer

\* Seek0 that leaves the position where the writer left it.
Seek0Missing(s) == s

\* input_stream.seek(0)
Seek0(s) == [s EXCEPT !.pos = 0]

\* output_stream = StringIO(): the handle of the new buffer.
NewBuffer(h, current) == Len(h) + 1

----------------------------------------------------------------------------
(* The definitions, namespaces and streams a run starts from               *)

FooSpec == [type |-> <<"test_workflow", "FooProcess">>, foo_value |-> "baz"]
NoTypeSpec == [foo_value |-> "baz"]
FooDefaultsSpec ==
    [type |-> <<"test_workflow", "FooProcess">>,
     default_parameters |-> [x |-> "1"]]
ShellSpec ==
    [type |-> <<"pipes", "BashCommand">>, name |-> "sh",
     default_parameters |->
        [x |-> "1", bash_command |-> "echo", output_filepath |-> "exists"]]
FileSpec ==
    [type |-> <<"pipes", "BashCommand">>,
     default_parameters |->
        [input_filepath |-> "exists", output_filepath |-> "missing",
         name |-> "dflt"]]
UnknownSpec == [type |-> <<"does", "not", "Exist">>]
AbstractSpec == [type |-> <<"pipes", "Process">>]

StageSpecs ==
    {FooSpec, NoTypeSpec, FooDefaultsSpec, ShellSpec, FileSpec, UnknownSpec,
     AbstractSpec}

Chains == UNION {[1..n -> StageSpecs] : n \in 0..MaxChain}

Definitions ==
    {[name |-> "foo", chain |-> c] : c \in Chains}
    \cup {[name |-> "foo", chain |-> c, pipe_parameters |-> [x |-> "2"]] : c \in Chains}

NamespaceLists ==
    { << <<"pipette">> >>, << <<"tests">> >>,
      << <<"tests">>, <<"pipette">> >>, << <<"pipette">>, <<"tests">> >> }

\* What the caller's input stream holds: '{x: 3}', '{}', nothing, '{'.
PipeInputs == {YamlDump([x |-> "3"]), YamlDump(EmptyDict), <<>>, <<LBrace>>}

\* The pipe_streams argument of communicate.
StreamArgs ==
    {[input |-> caller_input, output |-> caller_output],
     [input |-> caller_input, output |-> caller_output, error |-> caller_error]}

----------------------------------------------------------------------------
(* The state                                                               *)

VARIABLES
    process_namespaces, \* Pipe.process_namespaces
    definition,         \* Pipe.definition
    chain,              \* Pipe.chain, the processes instantiated so far
    heap,               \* the stream objects, by handle
    pipe_streams,       \* communicate: pipe_streams after the defaults
    chain_size,         \* communicate: chain_size
    index,              \* communicate: index of the loop
    input_stream,       \* communicate: input_stream
    output_stream,      \* communicate: output_stream
    input_yaml,         \* parse_input: the text read by the last parse_input
    pc,                 \* where communicate is
    exc,                \* the exception communicate raised, if any
    opened,             \* the definition files opened so far, by base name
    open_files,         \* the file objects run opened that are not closed
    log                 \* the lifecycle steps done so far, <<index, step>>

vars ==
    <<process_namespaces, definition, chain, heap, pipe_streams, chain_size,
      index, input_stream, output_stream, input_yaml, pc, exc, opened,
      open_files, log>>

locals == <<chain_size, index, input_stream, output_stream>>
\* What communicate and the lifecycle leave alone.
config == <<process_namespaces, definition, opened, open_files>>

Init ==
    /\ process_namespaces \in NamespaceLists
    /\ definition \in Definitions
    /\ chain = <<>>
    /\ \E text \in PipeInputs :
          heap = <<StdStream, StdStream, StdStream,
                   StringIO(text), StringIO(<<>>), StringIO(<<>>)>>
    /\ pipe_streams = EmptyDict
    /\ chain_size = 0
    /\ index = 0
    /\ input_stream = None
    /\ output_stream = None
    /\ input_yaml = <<>>
    /\ pc = "call"
    /\ exc = NoExc
    /\ opened = <<>>
    /\ open_files = {}
    /\ log = <<>>

\* The process the loop is at.
Current == chain[index + 1]

----------------------------------------------------------------------------
(* The steps of Pipe.communicate                                           *)

\* communicate is called: the streams get their defaults.
CommunicateBegin ==
    /\ pc = "call"
    /\ \E arg \in StreamArgs : pipe_streams' = _get_default_streams(arg)
    /\ pc' = CommunicateFlow("call", 0, 0, Len(definition.chain))
    /\ UNCHANGED <<config, chain, heap, locals, input_yaml, exc, log>>

\* _instanciate_processes yields the next process of the chain.
Instanciate ==
    /\ pc = "instanciate"
    /\ LET made == _instanciate_process(process_namespaces,
                       definition.chain[Len(chain) + 1])
       IN  IF made.exc # NoExc
             THEN /\ exc' = made.exc
                  /\ pc' = "raised"
                  /\ UNCHANGED chain
             ELSE /\ chain' = Append(chain, made.process)
                  /\ pc' = CommunicateFlow("instanciate", index, Len(chain) + 1,
                               Len(definition.chain))
                  /\ UNCHANGED exc
    /\ UNCHANGED <<config, heap, pipe_streams, locals, input_yaml, log>>

\* chain_size = len(self.chain); assert chain_size > 0; the first buffer.
AssertChain ==
    /\ pc = "assert"
    /\ chain_size' = Len(chain)
    /\ IF ~ChainSizeOk(Len(chain))
         THEN /\ exc' = Raise("AssertionError")
              /\ pc' = "raised"
              /\ UNCHANGED <<heap, index, input_stream, output_stream>>
         ELSE /\ output_stream' = NewBuffer(heap, output_stream)
              /\ heap' = Append(heap, StringIO(<<>>))
              /\ input_stream' = None
              /\ index' = 0
              /\ pc' = CommunicateFlow("rewire", 0, Len(chain), Len(definition.chain))
              /\ UNCHANGED exc
    /\ UNCHANGED <<config, chain, pipe_streams, input_yaml, log>>

\* The stream wiring of the process at index, then execute_process.
Wire ==
    /\ pc = "wire"
    /\ chain' = [chain EXCEPT ![index + 1].streams =
            [input |-> WireInput(index, chain_size, pipe_streams.input, input_stream),
             output |-> WireOutput(index, chain_size, pipe_streams.output, output_stream),
             error |-> WireError(pipe_streams.error, Current.streams.error)]]
    /\ pc' = ExecuteFlow("call")
    /\ UNCHANGED <<config, heap, pipe_streams, locals, input_yaml, exc, log>>

\* execute: self.parameters.update(default_parameters)
Merge ==
    /\ pc = "merge"
    /\ chain' = [chain EXCEPT ![index + 1] =
            merge_parameters(Current, Get(definition, "pipe_parameters", EmptyDict))]
    /\ log' = Append(log, <<index, "merge">>)
    /\ pc' = ExecuteFlow("merge")
    /\ UNCHANGED <<config, heap, pipe_streams, locals, input_yaml, exc>>

\* execute: self.put_on()
PutOn ==
    /\ pc = "put_on"
    /\ LET stream == heap[Current.streams.input]
           parsed == parse_input(Current, ReadText(stream))
       IN  /\ input_yaml' = ReadText(stream)
           /\ heap' = [heap EXCEPT ![Current.streams.input] = AfterRead(stream)]
           /\ chain' = [chain EXCEPT ![index + 1] = parsed.process]
           /\ exc' = parsed.exc
           /\ pc' = IF parsed.exc = NoExc THEN ExecuteFlow("put_on") ELSE "raised"
    /\ log' = Append(log, <<index, "put_on">>)
    /\ UNCHANGED <<config, pipe_streams, locals>>

\* execute: self.run()
Run ==
    /\ pc = "run"
    /\ \E popen_ok, reclaimed \in BOOLEAN :
          LET ran == run(Current, popen_ok)
          IN  /\ chain' = [chain EXCEPT ![index + 1] = ran.process]
              /\ exc' = ran.exc
              /\ pc' = IF ran.exc = NoExc THEN ExecuteFlow("run") ELSE "raised"
              /\ open_files' = open_files \cup
                    LeftOpen(RunOpens(index, Current, {PipesBashCommand}),
                             ran.exc # NoExc, reclaimed)
    /\ log' = Append(log, <<index, "run">>)
    /\ UNCHANGED <<process_namespaces, definition, opened, heap, pipe_streams,
                   locals, input_yaml>>

\* execute: self.reduce()
Reduce ==
    /\ pc = "reduce"
    /\ \E write_ok \in BOOLEAN :
          LET reduced == reduce(heap, Current, write_ok)
          IN  /\ heap' = reduced.heap
              /\ exc' = reduced.exc
              /\ pc' = IF reduced.exc = NoExc THEN ExecuteFlow("reduce") ELSE "raised"
    /\ log' = Append(log, <<index, "reduce">>)
    /\ UNCHANGED <<config, chain, pipe_streams, locals, input_yaml>>

\* execute returned: the buffer just written becomes the next input, is
\* rewound, and a new buffer is made for the next output.
Rewire ==
    /\ pc = "return"
    /\ input_stream' = output_stream
    /\ IF heap[output_stream].seekable \/ chain_size = 1
         THEN /\ heap' = Append(
                     [heap EXCEPT ![output_stream] =
                         IF heap[output_stream].seekable
                           THEN Seek0(heap[output_stream])
                           ELSE heap[output_stream]],
                     StringIO(<<>>))
              /\ output_stream' = NewBuffer(heap, output_stream)
              /\ index' = index + 1
              /\ pc' = CommunicateFlow("rewire", index + 1, Len(chain),
                           Len(definition.chain))
              /\ UNCHANGED exc
         ELSE /\ exc' = Raise("IOError")
              /\ pc' = "raised"
              /\ UNCHANGED <<heap, output_stream, index>>
    /\ UNCHANGED <<config, chain, pipe_streams, chain_size, input_yaml, log>>

Next ==
    \/ CommunicateBegin
    \/ Instanciate
    \/ AssertChain
    \/ Wire
    \/ Merge
    \/ PutOn
    \/ Run
    \/ Reduce
    \/ Rewire

Spec == Init /\ [][Next]_vars

----------------------------------------------------------------------------
(* Properties of Pipe.communicate                                          *)

\* The number of stages of the chain.
N == Len(definition.chain)

\* The process at index has been wired and its lifecycle is under way.
InLifecycle == pc \in {"merge", "put_on", "run", "reduce"}

Keys == {KeyOrder[i] : i \in 1..Len(KeyOrder)}

\* C1: while a stage executes, its output handle is the pipeline-level
\* output stream if and only if it is the last stage of the chain.
C1_LastStageOutput ==
    InLifecycle =>
        (Current.streams.output = pipe_streams.output <=> index = N - 1)

C1_Witness ==
    /\ pc = "reduce"
    /\ N = 3
    /\ index = 2
    /\ Current.streams.output = caller_output

\* C2: the input handle of stage i+1 is the buffer that was the output
\* handle of stage i; it is at its start before stage i+1 reads, what stage
\* i+1 reads is what stage i wrote, and no two stages wrote to one buffer
\* or to a stream of the pipeline.
C2_BufferHandoff ==
    (InLifecycle /\ index >= 1) =>
        /\ Current.streams.input = chain[index].streams.output
        /\ pc \in {"merge", "put_on"} =>
              /\ heap[Current.streams.input].pos = 0
              /\ heap[Current.streams.input].buf = bake_output(chain[index])
        /\ pc \in {"run", "reduce"} => input_yaml = bake_output(chain[index])
        /\ \A i, j \in 1..index :
              i # j => chain[i].streams.output # chain[j].streams.output
        /\ \A i \in 1..index :
              chain[i].streams.output \notin
                  {pipe_streams.input, pipe_streams.output, pipe_streams.error}

C2_Witness ==
    /\ pc = "run"
    /\ index = 2
    /\ input_yaml = YamlDump([foo |-> "bar"])
    /\ chain[2].streams.output # chain[1].streams.output

\* The lifecycle steps of a chain of n stages, in order.
Steps == <<"merge", "put_on", "run", "reduce">>
Canon(k) == <<(k - 1) \div Len(Steps), Steps[((k - 1) % Len(Steps)) + 1]>>

\* C3: the steps done so far are the first steps of: merge, put_on, run,
\* reduce of stage 0, then those of stage 1, and so on; when communicate
\* returns, every stage has done each of its steps once.
C3_SequentialOrder ==
    /\ Len(log) <= Len(Steps) * N
    /\ \A k \in 1..Len(log) : log[k] = Canon(k)
    /\ pc = "done" => Len(log) = Len(Steps) * N
    /\ InLifecycle => Len(log) = Len(Steps) * index + (CHOOSE k \in 1..Len(Steps) : Steps[k] = pc) - 1

C3_Witness ==
    /\ pc = "done"
    /\ N = 3
    /\ log[Len(log)] = <<2, "reduce">>

\* C4: after the merge and put_on of a stage, every parameter but name has
\* the value of the input mapping if the mapping has the key, else that of
\* pipe_parameters if it has the key, else that of default_parameters.
C4_ParameterPrecedence ==
    pc \in {"run", "reduce", "return"} =>
        LET input == YamlLoad(input_yaml).value
            pipe == Get(definition, "pipe_parameters", EmptyDict)
            defaults == Get(definition.chain[index + 1], "default_parameters", EmptyDict)
            parameters == Current.parameters
        IN  \A k \in Keys \ {"name"} :
                IF k \in DOMAIN input
                    THEN k \in DOMAIN parameters /\ parameters[k] = input[k]
                ELSE IF k \in DOMAIN pipe
                    THEN k \in DOMAIN parameters /\ parameters[k] = pipe[k]
                ELSE IF k \in DOMAIN defaults
                    THEN k \in DOMAIN parameters /\ parameters[k] = defaults[k]
                ELSE k \notin DOMAIN parameters

C4_Witness ==
    /\ pc = "run"
    /\ definition.chain[index + 1] = ShellSpec
    /\ "pipe_parameters" \in DOMAIN definition
    /\ definition.pipe_parameters["x"] = "2"
    /\ input_yaml = YamlDump([x |-> "3"])
    /\ Current.parameters["x"] = "3"

\* C5: the only stage of a one-stage chain reads the input stream of the
\* pipeline and writes to its output stream; when communicate returns that
\* stream holds the serialization of the results of the stage, and the
\* stage in the chain still has it as its output.
C5_SingleStage ==
    (N = 1 /\ pc \in {"merge", "put_on", "run", "reduce", "return", "done"}) =>
        /\ chain[1].streams.input = pipe_streams.input
        /\ chain[1].streams.output = pipe_streams.output
        /\ pc \in {"return", "done"} =>
              heap[pipe_streams.output].buf = bake_output(chain[1])

C5_Witness ==
    /\ pc = "done"
    /\ definition.chain = <<FooSpec>>
    /\ heap[caller_output].buf = YamlDump([foo |-> "bar"])
    /\ chain[1].streams.output = caller_output

C7_ResolutionBeforeStages ==
    (pc = "raised" /\ Len(chain) < N) =>
        /\ exc # NoExc
        /\ log = <<>>
        /\ \A h \in DOMAIN heap : heap[h].pos = 0 /\ ~heap[h].dirty
        /\ heap[caller_output].buf = <<>>
        /\ \A i \in 1..Len(chain) : chain[i].streams = NewProcess("").streams

C7_Witness ==
    /\ pc = "raised"
    /\ N = 3
    /\ Len(chain) = 2
    /\ exc.type = "ImportError"

----------------------------------------------------------------------------
(* Properties of the resolution of stage types                             *)

\* The type identifier the stage spec at position i of the chain declares.
Declared(i) == Get(definition.chain[i], "type", default_type)

\* The stage spec whose instantiation failed, when one did.
InstantiationFailed == pc = "raised" /\ Len(chain) < N
FailedSpec == Len(chain) + 1

\* Looking identifier up as <namespace>.<identifier>.
YieldsMatch(namespace, identifier) ==
    /\ Front(namespace \o identifier) \in Importable
    /\ Last(identifier) \in DOMAIN ModuleDict(Front(namespace \o identifier))

MatchIn(namespace, identifier) ==
    ModuleDict(Front(namespace \o identifier))[Last(identifier)]

IsSuffix(t, u) ==
    /\ Len(t) <= Len(u)
    /\ SubSeq(u, Len(u) - Len(t) + 1, Len(u)) = t

\* C8: a resolved stage has the type found in the first namespace, in list
\* order, in which <namespace>.<identifier> is defined, and resolution fails
\* to find a type only when no namespace defines <namespace>.<identifier>.
C8_FirstMatchWins ==
    /\ \A i \in 1..Len(chain) :
          \E n \in 1..Len(process_namespaces) :
              /\ YieldsMatch(process_namespaces[n], Declared(i))
              /\ \A m \in 1..(n - 1) : ~YieldsMatch(process_namespaces[m], Declared(i))
              /\ chain[i].cls = MatchIn(process_namespaces[n], Declared(i))
    /\ (InstantiationFailed /\ exc.type \in {"ImportError", "AttributeError"}) =>
          \A n \in 1..Len(process_namespaces) :
              ~YieldsMatch(process_namespaces[n], Declared(FailedSpec))

\* C9, as claimed: when no namespace defines <namespace>.<identifier>, the
\* failure is the resolution error (ImportError) and its message names the
\* declared identifier and the list of namespaces.
C9_AlwaysResolutionError ==
    (/\ InstantiationFailed
     /\ \A n \in 1..Len(process_namespaces) :
            ~YieldsMatch(process_namespaces[n], Declared(FailedSpec))) =>
        /\ exc.type = "ImportError"
        /\ IsSuffix(Declared(FailedSpec), exc.process_type)
        /\ exc.namespaces = process_namespaces

\* The identifier find_process_class looks up at its n-th namespace: every
\* namespace so far prefixed to the declared identifier.
RECURSIVE Tried(_, _, _)
Tried(namespaces, identifier, n) ==
    IF n = 0 THEN identifier
    ELSE namespaces[n] \o Tried(namespaces, identifier, n - 1)

NothingImportable(namespaces, identifier) ==
    \A n \in 1..Len(namespaces) :
        Front(Tried(namespaces, identifier, n)) \notin Importable

\* C9, amended: when none of the modules tried can be imported, the failure
\* is an ImportError naming the identifier, prefixed by the namespaces, and
\* the list of namespaces; when a module was imported and does not define
\* the type, the failure is an AttributeError.
C9_ResolutionErrors ==
    InstantiationFailed =>
        LET identifier == Declared(FailedSpec)
            nothing == NothingImportable(process_namespaces, identifier)
        IN  /\ nothing =>
                  exc = [type |-> "ImportError",
                         process_type |-> Tried(process_namespaces, identifier,
                                              Len(process_namespaces)),
                         namespaces |-> process_namespaces]
            /\ exc.type = "ImportError" =>
                  nothing /\ IsSuffix(identifier, exc.process_type)
            /\ exc.type = "AttributeError" => ~nothing
            /\ (\A n \in 1..Len(process_namespaces) :
                    ~YieldsMatch(process_namespaces[n], identifier)) =>
                  exc.type \in {"ImportError", "AttributeError"}

C9_Witness ==
    /\ InstantiationFailed
    /\ definition.chain[FailedSpec] = UnknownSpec
    /\ exc = [type |-> "ImportError",
              process_type |-> <<"pipette", "does", "not", "Exist">>,
              namespaces |-> << <<"pipette">> >>]

\* The one namespace of the list is a module that can be imported and does
\* not define the default type.
LacksDefaultType(namespaces) ==
    /\ Len(namespaces) = 1
    /\ namespaces[1] \in Importable
    /\ Last(default_type) \notin DOMAIN ModuleDict(namespaces[1])

\* C10: with such a namespace, no stage spec that omits its type is ever
\* instantiated: communicate raises AttributeError at it, before any step
\* of any stage.
C10_NoTypeAttributeError ==
    LacksDefaultType(process_namespaces) =>
        /\ \A i \in 1..Len(chain) : "type" \in DOMAIN definition.chain[i]
        /\ (InstantiationFailed /\ "type" \notin DOMAIN definition.chain[FailedSpec]) =>
              /\ exc.type = "AttributeError"
              /\ log = <<>>

C10_Witness ==
    /\ pc = "raised"
    /\ process_namespaces = << <<"tests">> >>
    /\ definition.chain = <<NoTypeSpec>>
    /\ exc.type = "AttributeError"
    /\ chain = <<>>

\* C11: with the default list of namespaces, ['pipette'], a stage spec that
\* omits its type is instantiated: its instantiation does not fail.
C11_DefaultTypeInstantiates ==
    process_namespaces = << <<"pipette">> >> =>
        ~(InstantiationFailed /\ "type" \notin DOMAIN definition.chain[FailedSpec])

\* C12: when the input stream of a stage is empty, put_on raises nothing
\* and the lifecycle goes on to run.
C12_EmptyInputNoOp ==
    (/\ log # <<>>
     /\ log[Len(log)] = <<index, "put_on">>
     /\ input_yaml = <<>>) =>
        /\ pc = "run"
        /\ exc = NoExc

----------------------------------------------------------------------------
(* The package module, pipette/__init__.py: its Process, BashCommand and   *)
(* Pipe, which read and write JSON                                         *)

\* A comment of a JSON text, which json_minify removes.
Comment == <<"//", "">>

RECURSIVE json_minify(_)
json_minify(text) ==
    IF text = <<>> THEN <<>>
    ELSE (IF text[1] = Comment THEN <<>> ELSE <<text[1]>>)
             \o json_minify(SubSeq(text, 2, Len(text)))

\* json.dumps of a mapping of strings.
JsonDumps(m) == <<LBrace>> \o DumpItems(m, 1) \o <<RBrace>>

\* json.loads: the mapping of an object, ValueError for anything else.
JsonLoads(text) ==
    IF IsFlowMapping(text)
        THEN [kind |-> "dict",
              value |-> LoadItems(SubSeq(text, 2, Len(text) - 1), Len(text) - 2)]
        ELSE [kind |-> "ValueError", value |-> EmptyDict]

\* isinstance(cls(), Process), with Process the class of __init__.py.
IsPkgProcess(cls) == cls \in {InitProcess, InitBashCommand}

\* get_default_streams of __init__.py
get_default_streams(streams) ==
    [input |-> Get(streams, "input", sys_stdin),
     output |-> Get(streams, "output", sys_stdout),
     error |-> Get(streams, "error", sys_stderr)]

\* Pipe.find_process_class of __init__.py: one namespace, and the errors of
\* __import__ and getattr as they come.
pkg_find_process_class(namespace, declared) ==
    LET process_type == namespace \o declared
        module_name == Front(process_type)
        class_name == Last(process_type)
    IN  IF module_name \notin Importable THEN
            [exc |-> Raise("ImportError"), cls |-> ""]
        ELSE IF class_name \notin DOMAIN ModuleDict(module_name) THEN
            [exc |-> Raise("AttributeError"), cls |-> ""]
        ELSE [exc |-> NoExc, cls |-> ModuleDict(module_name)[class_name]]

\* Pipe.instantiate_process of __init__.py
instantiate_process(namespace, process_description) ==
    LET found == pkg_find_process_class(namespace,
                     Get(process_description, "type", default_type))
        process == NewProcess(found.cls)
        default_process_name == ClassLowerName(found.cls)
    IN  IF found.exc # NoExc THEN [exc |-> found.exc, process |-> process]
        ELSE IF IsAbstract(found.cls) THEN
            [exc |-> Raise("TypeError"), process |-> process]
        ELSE IF ~IsPkgProcess(found.cls) THEN
            [exc |-> Raise("AssertionError"), process |-> process]
        ELSE [exc |-> NoExc,
              process |->
                [process EXCEPT
                    !.parameters = SetItem(process.parameters, "name",
                                       Get(process_description, "name",
                                           default_process_name)),
                    !.description = process_description]]

\* One turn of the loop of Pipe.bake_processes.
bake_process(namespace, process_description) ==
    LET made == instantiate_process(namespace, process_description)
        default_parameters == Get(process_description, "default_parameters", EmptyDict)
    IN  IF made.exc # NoExc THEN made
        ELSE [exc |-> NoExc,
              process |-> [made.process EXCEPT
                  !.parameters = Update(made.process.parameters, default_parameters)]]

\* Process.parse_input of __init__.py, given the text read.
pkg_parse_input(process, text) ==
    LET json_data == json_minify(text)
        input_parameters == JsonLoads(json_data)
    IN  IF json_data = <<>> THEN [exc |-> NoExc, process |-> process]
        ELSE IF input_parameters.kind = "ValueError" THEN
            [exc |-> Raise("ValueError"), process |-> process]
        ELSE [exc |-> NoExc,
              process |-> [process EXCEPT
                  !.parameters = Update(process.parameters, input_parameters.value)]]

\* Process.run (which does nothing) and BashCommand.run of __init__.py.
\* The buffers that capture the output and the error of the command are
\* StringIO objects, which have getvalue and no get_value.
pkg_run(process, popen_ok) ==
    LET collected == [process EXCEPT
                         !.results = Update(process.results, process.parameters)]
    IN  IF process.cls # InitBashCommand THEN [exc |-> NoExc, process |-> process]
        ELSE IF \E k \in FilepathKeys :
                    /\ k \in DOMAIN process.parameters
                    /\ ~is_filepath_safe(process.parameters[k]) THEN
            [exc |-> Raise("AssertionError"), process |-> process]
        ELSE IF ~popen_ok THEN
            [exc |-> Raise("OSError"), process |-> process]
        ELSE IF \/ "output_filepath" \notin DOMAIN collected.results
                \/ "error_filepath" \notin DOMAIN collected.results THEN
            [exc |-> Raise("AttributeError"), process |-> collected]
        ELSE [exc |-> NoExc, process |-> collected]

\* Process.reduce of __init__.py, on the heap of streams.
pkg_reduce(h, process, write_ok) ==
    LET output == JsonDumps(process.results)
        written == [h EXCEPT ![process.streams.output] =
                        AfterWrite(h[process.streams.output], output)]
    IN  IF write_ok
          THEN [exc |-> NoExc, heap |-> flush_streams(written, process)]
          ELSE [exc |-> Raise("IOError"), heap |-> h]

\* Pipe.communicate of __init__.py: the input handle of the process at idx.
PkgWireInput(idx, size, pipe_input, input_buffer) ==
    IF size = 1 THEN pipe_input
    ELSE IF idx = 0 THEN pipe_input
    ELSE input_buffer

\* Pipe.communicate of __init__.py: the output handle of the process at
\* idx, after both if statements.
PkgWireOutput(idx, size, pipe_output, output_buffer, own_output) ==
    LET first == IF size = 1 THEN pipe_output ELSE own_output
    IN  IF idx = size THEN pipe_output ELSE output_buffer

----------------------------------------------------------------------------
(* The runs of the Pipe of __init__.py                                     *)

PkgFilesSpec ==
    [default_parameters |->
        [bash_command |-> "echo", output_filepath |-> "exists",
         error_filepath |-> "exists"]]
PkgPlainSpec ==
    [type |-> <<"BashCommand">>, name |-> "sh",
     default_parameters |-> [bash_command |-> "echo"]]
PkgOutputFileSpec ==
    [type |-> <<"BashCommand">>,
     default_parameters |-> [bash_command |-> "echo", output_filepath |-> "exists"]]
PkgBaseSpec == [type |-> <<"Process">>, default_parameters |-> [x |-> "1"]]
PkgMissingSpec ==
    [default_parameters |->
        [input_filepath |-> "exists", error_filepath |-> "missing",
         name |-> "dflt"]]
PkgForeignSpec == [type |-> <<"pipes", "BashCommand">>]

PkgStageSpecs ==
    {PkgFilesSpec, PkgPlainSpec, PkgOutputFileSpec, PkgBaseSpec, PkgMissingSpec,
     PkgForeignSpec}

PkgChains == UNION {[1..n -> PkgStageSpecs] : n \in 0..MaxChain}

PkgDefinitions ==
    {[chain |-> c] : c \in PkgChains}
    \cup {[chain |-> c, pipe_parameters |-> [x |-> "2"]] : c \in PkgChains}

\* self.process_namespace: 'pippete' as the constructor sets it, 'pipette'
\* as a caller sets the attribute to reach the classes of the package.
PkgNamespaces == {<<"pippete">>, <<"pipette">>}

\* What the caller's input stream holds: '{"x": "3"}', '{}', nothing, a
\* comment, '{'.
PkgInputs ==
    {JsonDumps([x |-> "3"]), JsonDumps(EmptyDict), <<>>, <<Comment>>, <<LBrace>>}

InitPkg ==
    /\ process_namespaces \in PkgNamespaces
    /\ definition \in PkgDefinitions
    /\ chain = <<>>
    /\ \E text \in PkgInputs :
          heap = <<StdStream, StdStream, StdStream,
                   StringIO(text), StringIO(<<>>), StringIO(<<>>)>>
    /\ pipe_streams = EmptyDict
    /\ chain_size = 0
    /\ index = 0
    /\ input_stream = None
    /\ output_stream = None
    /\ input_yaml = <<>>
    /\ pc = "pkg_call"
    /\ exc = NoExc
    /\ opened = <<>>
    /\ open_files = {}
    /\ log = <<>>

PkgCommunicateBegin ==
    /\ pc = "pkg_call"
    /\ \E arg \in StreamArgs : pipe_streams' = get_default_streams(arg)
    /\ pc' = IF Len(definition.chain) > 0 THEN "pkg_bake" ELSE "pkg_assert"
    /\ UNCHANGED <<config, chain, heap, locals, input_yaml, exc, log>>

\* bake_processes yields the next process; list() takes them all.
PkgBake ==
    /\ pc = "pkg_bake"
    /\ LET made == bake_process(process_namespaces,
                       definition.chain[Len(chain) + 1])
       IN  IF made.exc # NoExc
             THEN /\ exc' = made.exc
                  /\ pc' = "pkg_raised"
                  /\ UNCHANGED chain
             ELSE /\ chain' = Append(chain, made.process)
                  /\ pc' = IF Len(chain) + 1 < Len(definition.chain)
                             THEN "pkg_bake" ELSE "pkg_assert"
                  /\ UNCHANGED exc
    /\ UNCHANGED <<config, heap, pipe_streams, locals, input_yaml, log>>

PkgAssertChain ==
    /\ pc = "pkg_assert"
    /\ chain_size' = Len(chain)
    /\ IF ~(Len(chain) > 0)
         THEN /\ exc' = Raise("AssertionError")
              /\ pc' = "pkg_raised"
              /\ UNCHANGED <<heap, index, input_stream, output_stream>>
         ELSE /\ output_stream' = NewBuffer(heap, output_stream)
              /\ heap' = Append(heap, StringIO(<<>>))
              /\ input_stream' = None
              /\ index' = 0
              /\ pc' = "pkg_wire"
              /\ UNCHANGED exc
    /\ UNCHANGED <<config, chain, pipe_streams, input_yaml, log>>

PkgWire ==
    /\ pc = "pkg_wire"
    /\ chain' = [chain EXCEPT ![index + 1].streams =
            [input |-> PkgWireInput(index, chain_size, pipe_streams.input, input_stream),
             output |-> PkgWireOutput(index, chain_size, pipe_streams.output,
                            output_stream, Current.streams.output),
             error |-> WireError(pipe_streams.error, Current.streams.error)]]
    /\ pc' = "pkg_merge"
    /\ UNCHANGED <<config, heap, pipe_streams, locals, input_yaml, exc, log>>

PkgMerge ==
    /\ pc = "pkg_merge"
    /\ chain' = [chain EXCEPT ![index + 1] =
            merge_parameters(Current, Get(definition, "pipe_parameters", EmptyDict))]
    /\ log' = Append(log, <<index, "merge">>)
    /\ pc' = "pkg_put_on"
    /\ UNCHANGED <<config, heap, pipe_streams, locals, input_yaml, exc>>

PkgPutOn ==
    /\ pc = "pkg_put_on"
    /\ LET stream == heap[Current.streams.input]
           parsed == pkg_parse_input(Current, ReadText(stream))
       IN  /\ input_yaml' = ReadText(stream)
           /\ heap' = [heap EXCEPT ![Current.streams.input] = AfterRead(stream)]
           /\ chain' = [chain EXCEPT ![index + 1] = parsed.process]
           /\ exc' = parsed.exc
           /\ pc' = IF parsed.exc = NoExc THEN "pkg_run" ELSE "pkg_raised"
    /\ log' = Append(log, <<index, "put_on">>)
    /\ UNCHANGED <<config, pipe_streams, locals>>

PkgRun ==
    /\ pc = "pkg_run"
    /\ \E popen_ok, reclaimed \in BOOLEAN :
          LET ran == pkg_run(Current, popen_ok)
          IN  /\ chain' = [chain EXCEPT ![index + 1] = ran.process]
              /\ exc' = ran.exc
              /\ pc' = IF ran.exc = NoExc THEN "pkg_reduce" ELSE "pkg_raised"
              /\ open_files' = open_files \cup
                    LeftOpen(RunOpens(index, Current, {InitBashCommand}),
                             ran.exc # NoExc, reclaimed)
    /\ log' = Append(log, <<index, "run">>)
    /\ UNCHANGED <<process_namespaces, definition, opened, heap, pipe_streams,
                   locals, input_yaml>>

PkgReduce ==
    /\ pc = "pkg_reduce"
    /\ \E write_ok \in BOOLEAN :
          LET reduced == pkg_reduce(heap, Current, write_ok)
          IN  /\ heap' = reduced.heap
              /\ exc' = reduced.exc
              /\ pc' = IF reduced.exc = NoExc THEN "pkg_return" ELSE "pkg_raised"
    /\ log' = Append(log, <<index, "reduce">>)
    /\ UNCHANGED <<config, chain, pipe_streams, locals, input_yaml>>

\* input_stream = output_stream; output_stream = StringIO(): no seek.
PkgRewire ==
    /\ pc = "pkg_return"
    /\ input_stream' = output_stream
    /\ heap' = Append(heap, StringIO(<<>>))
    /\ output_stream' = NewBuffer(heap, output_stream)
    /\ index' = index + 1
    /\ pc' = IF index + 1 < Len(chain) THEN "pkg_wire" ELSE "pkg_done"
    /\ UNCHANGED <<config, chain, pipe_streams, chain_size, input_yaml, exc, log>>

NextPkg ==
    \/ PkgCommunicateBegin
    \/ PkgBake
    \/ PkgAssertChain
    \/ PkgWire
    \/ PkgMerge
    \/ PkgPutOn
    \/ PkgRun
    \/ PkgReduce
    \/ PkgRewire

\* The runs of the Pipe of __init__.py.
SpecPkg == InitPkg /\ [][NextPkg]_vars

\* The runs of either Pipe.
InitAll == Init \/ InitPkg
NextAll == Next \/ NextPkg
SpecAll == InitAll /\ [][NextAll]_vars

PkgInLifecycle == pc \in {"pkg_merge", "pkg_put_on", "pkg_run", "pkg_reduce"}

----------------------------------------------------------------------------
(* Properties of both Pipes                                                *)

\* C13: while a stage executes, in the Pipe of pipes.py and in the Pipe of
\* __init__.py, its error handle is the error stream of the pipeline.
C13_ErrorStreamShared ==
    (InLifecycle \/ PkgInLifecycle) =>
        Current.streams.error = pipe_streams.error

C13_Witness ==
    /\ pc = "pkg_reduce"
    /\ index = 2
    /\ Current.streams.error = caller_error
    /\ chain[1].streams.error = caller_error

\* C14: with a chain of no entries, communicate of pipes.py instantiates
\* and executes nothing, writes nothing, and ends with the AssertionError
\* of the assertion on the size of the chain.
C14_EmptyChainFails ==
    N = 0 =>
        /\ pc \in {"call", "assert", "raised"}
        /\ pc = "raised" => exc.type = "AssertionError"
        /\ chain = <<>>
        /\ log = <<>>
        /\ \A h \in DOMAIN heap : heap[h].pos = 0 /\ heap[h].flushes = 0
        /\ heap[caller_output].buf = <<>>

C14_Witness ==
    /\ N = 0
    /\ pc = "raised"
    /\ exc.type = "AssertionError"
    /\ chain_size = 0

----------------------------------------------------------------------------
(* Definition files                                                        *)

\* A file has a base name, a sequence of parts of which the last is its
\* suffix, and a content: a text that parses to a tree, a text that does
\* not parse, or nothing.
File(basename, kind, tree) ==
    [basename |-> basename, content |-> [kind |-> kind, tree |-> tree]]

FooFile ==
    File(<<"foo", ".pipe">>, "mapping",
         [name |-> <<"foo_pipe">>, chain |-> <<FooSpec>>])
ShellFile ==
    File(<<"sh", ".pipe">>, "mapping", [chain |-> <<ShellSpec, ShellSpec>>])
PlainFile == File(<<"plain", ".json">>, "mapping", [chain |-> <<FooSpec>>])
BrokenPlainFile == File(<<"plain", ".json">>, "garbage", EmptyDict)
BrokenFile == File(<<"broken", ".pipe">>, "garbage", EmptyDict)
EmptyFile == File(<<"empty", ".pipe">>, "empty", EmptyDict)
PkgFile ==
    File(<<"foo", "Pipe.json">>, "mapping",
         [name |-> <<"inner">>, chain |-> <<PkgBaseSpec, PkgFilesSpec>>])

Files ==
    {FooFile, ShellFile, PlainFile, BrokenPlainFile, BrokenFile, EmptyFile,
     PkgFile}

\* Pipe.pipe_extension of pipes.py
pipe_extension == ".pipe"

\* The suffix Pipe.parse_definition of __init__.py asks for.
pkg_extension == "Pipe.json"

\* self.definition of a Pipe made without a definition.
NoDefinition == [name |-> <<"None">>]
OldDefinition == [name |-> <<"old">>, chain |-> <<FooDefaultsSpec>>]

\* str.endswith
EndsWith(basename, suffix) == Last(basename) = suffix

\* Pipe._parse_definition of pipes.py: the new definition and the error,
\* if any, of loading the stream.
_parse_definition(pipe_name, content) ==
    LET named == [name |-> pipe_name]
    IN  IF content.kind = "garbage" THEN
            [exc |-> Raise("ParserError"), definition |-> named]
        ELSE IF content.kind = "empty" THEN
            [exc |-> Raise("TypeError"), definition |-> named]
        ELSE [exc |-> NoExc, definition |-> Update(named, content.tree)]

\* Pipe.parse_definition_file of pipes.py, on the definition the Pipe holds.
parse_definition_file(held, file) ==
    IF ~EndsWith(file.basename, pipe_extension) THEN
        [exc |-> Raise("Exception"), definition |-> held, opened |-> <<>>]
    ELSE LET pipe_name == Front(file.basename)
             parsed == _parse_definition(pipe_name, file.content)
         IN  [exc |-> IF parsed.exc.type = "ParserError"
                        THEN Raise("IOError") ELSE parsed.exc,
              definition |-> parsed.definition,
              opened |-> <<file.basename>>]

\* str.replace(suffix, '')
Replace(basename, suffix) == SelectSeq(basename, LAMBDA part : part # suffix)

\* Pipe.parse_definition of __init__.py, a class method that returns the
\* definition; held is what the caller has when it raises.
parse_definition(held, file) ==
    IF file.content.kind # "mapping" THEN
        [exc |-> Raise("IOError"), definition |-> held,
         opened |-> <<file.basename>>]
    ELSE IF ~EndsWith(file.basename, pkg_extension) THEN
        [exc |-> Raise("Exception"), definition |-> held,
         opened |-> <<file.basename>>]
    ELSE [exc |-> NoExc,
          definition |-> SetItem(file.content.tree, "name",
                             Replace(file.basename, pkg_extension)),
          opened |-> <<file.basename>>]

InitParse ==
    /\ \/ /\ pc = "new"
          /\ process_namespaces \in {<< <<"tests">> >>, << <<"pipette">> >>}
          /\ definition \in {NoDefinition, OldDefinition}
          /\ \E text \in PipeInputs :
                heap = <<StdStream, StdStream, StdStream,
                         StringIO(text), StringIO(<<>>), StringIO(<<>>)>>
       \/ /\ pc = "pkg_new"
          /\ process_namespaces \in PkgNamespaces
          /\ definition = NoDefinition
          /\ \E text \in PkgInputs :
                heap = <<StdStream, StdStream, StdStream,
                         StringIO(text), StringIO(<<>>), StringIO(<<>>)>>
    /\ chain = <<>>
    /\ pipe_streams = EmptyDict
    /\ chain_size = 0
    /\ index = 0
    /\ input_stream = None
    /\ output_stream = None
    /\ input_yaml = <<>>
    /\ exc = NoExc
    /\ opened = <<>>
    /\ open_files = {}
    /\ log = <<>>

\* pipe.parse_definition_file(path) on a Pipe of pipes.py.
ParseDefinitionFile ==
    /\ pc = "new"
    /\ \E file \in Files :
          LET parsed == parse_definition_file(definition, file)
          IN  /\ definition' = parsed.definition
              /\ opened' = opened \o parsed.opened
              /\ exc' = parsed.exc
              /\ pc' = IF parsed.exc = NoExc THEN "call" ELSE "raised"
    /\ UNCHANGED <<process_namespaces, chain, heap, pipe_streams, locals,
                   input_yaml, open_files, log>>

\* Pipe(Pipe.parse_definition(path)) with the Pipe of __init__.py.
PkgParseDefinition ==
    /\ pc = "pkg_new"
    /\ \E file \in Files :
          LET parsed == parse_definition(definition, file)
          IN  /\ definition' = parsed.definition
              /\ opened' = opened \o parsed.opened
              /\ exc' = parsed.exc
              /\ pc' = IF parsed.exc = NoExc THEN "pkg_call" ELSE "pkg_raised"
    /\ UNCHANGED <<process_namespaces, chain, heap, pipe_streams, locals,
                   input_yaml, open_files, log>>

NextParse ==
    \/ ParseDefinitionFile
    \/ PkgParseDefinition
    \/ NextAll

\* The runs that load the definition from a file first.
SpecParse == InitParse /\ [][NextParse]_vars

----------------------------------------------------------------------------
(* Properties of loading, BashCommand.run, the package Pipe and reduce     *)

\* The step the process at index took last.
LastStep(step) == log # <<>> /\ log[Len(log)] = <<index, step>>

\* C15: when loading a definition file fails for the suffix of its base
\* name, the file has not been opened and the definition the Pipe held is
\* the one it holds.
C15_SuffixCheckedFirst ==
    (pc \in {"raised", "pkg_raised"} /\ log = <<>> /\ exc.type = "Exception") =>
        /\ opened = <<>>
        /\ definition \in {NoDefinition, OldDefinition}

\* C16: after parse_definition_file of pipes.py has loaded a file, the name
\* of the definition is the base name of the file without its suffix.
C16_NameFromFile ==
    (pc = "call" /\ opened # <<>>) =>
        definition.name = Front(opened[Len(opened)])

\* C17: BashCommand.run of __init__.py does not raise when neither stream
\* goes to a file, and when it returns the results hold every parameter,
\* output exactly without output_filepath and error exactly without
\* error_filepath.
C17_RunCollectsResults ==
    (LastStep("run") /\ pc \in {"pkg_reduce", "pkg_raised"}
                     /\ Current.cls = InitBashCommand) =>
        LET parameters == Current.parameters
            results == Current.results
        IN  /\ ({"output_filepath", "error_filepath"} \cap DOMAIN parameters = {})
                  => exc.type \notin {"AttributeError", "TypeError"}
            /\ exc = NoExc =>
                  /\ \A k \in DOMAIN parameters :
                        k \in DOMAIN results /\ results[k] = parameters[k]
                  /\ "output" \in DOMAIN results
                        <=> "output_filepath" \notin DOMAIN parameters
                  /\ "error" \in DOMAIN results
                        <=> "error_filepath" \notin DOMAIN parameters

\* C18: in communicate of __init__.py the output handle of the last process
\* is the output stream of the pipeline while that process executes.
C18_PkgLastStageOutput ==
    (PkgInLifecycle /\ index = Len(chain) - 1) =>
        Current.streams.output = pipe_streams.output

\* C19: in communicate of __init__.py the buffer handed to the process at
\* index is at its start before that process reads, and what the process
\* reads is what the process before it wrote.
C19_PkgBufferRewound ==
    (PkgInLifecycle /\ index >= 1) =>
        /\ Current.streams.input = chain[index].streams.output
        /\ pc \in {"pkg_merge", "pkg_put_on"} =>
              heap[Current.streams.input].pos = 0
        /\ pc \in {"pkg_run", "pkg_reduce"} =>
              input_yaml = JsonDumps(chain[index].results)

\* The number of reduce steps in the log that used stream s as the output
\* or the error handle.
ReduceCount(s) ==
    Cardinality({i \in 1..Len(log) :
        /\ log[i][2] = "reduce"
        /\ s \in {chain[log[i][1] + 1].streams.output,
                  chain[log[i][1] + 1].streams.error}})

\* C20: every reduce, one whose write raised included, has flushed the
\* output stream and the error stream of its process.
C20_ReduceAlwaysFlushes ==
    pc \in {"return", "raised", "done", "wire"} =>
        \A s \in DOMAIN heap : heap[s].flushes = ReduceCount(s)

----------------------------------------------------------------------------
(* Properties of file handles and of names                                 *)

\* C21: no file object that BashCommand.run opened is open once run has
\* returned or raised, so none is open when the next process starts.
C21_HandlesClosed == open_files = {}

\* C22: before any process has executed, the name parameter of every
\* process made is the name of its description when it has one and the
\* lower-cased name of its class otherwise, for either Pipe.
C22_NameParameter ==
    log = <<>> =>
        \A i \in 1..Len(chain) :
            chain[i].parameters.name =
                Get(definition.chain[i], "name", ClassLowerName(chain[i].cls))

====
